---- MODULE Spec2Model ----
(***************************************************************************)
(* Investment holdings ledger of fin-tracker: AddTransaction and           *)
(* DeleteTransaction of the investment service, the holdings and           *)
(* investment_transactions tables, and the database transaction that       *)
(* WithTx opens around them.                                               *)
(*                                                                         *)
(* Decimals.  The code computes with shopspring decimals (exact Add, Sub,  *)
(* Mul; Div rounded half away from zero to DivisionPrecision digits) and   *)
(* stores them in DECIMAL(18,s) columns, which round half away from zero   *)
(* to s digits.  A decimal is modelled as [v, e], the number v * 10^-e.    *)
(* The code's scales are 8 (quantity), 6 (price), 2 (cost) and 16          *)
(* (division); the model keeps the same arithmetic with smaller scales so  *)
(* that every intermediate value fits the checker's integers.              *)
(***************************************************************************)
EXTENDS Integers, Sequences, FiniteSets, TLC

\* ---------------------------------------------------------------- bounds
QtyScale == 1      \* digits kept by holdings.quantity (8 in the schema)
PriceScale == 1    \* digits kept by holdings.average_price (6 in the schema)
CostScale == 1     \* digits kept by holdings.total_cost (2 in the schema)
DivisionPrecision == 3  \* digits kept by decimal.Div (16 in the library)
MaxTx == 3         \* number of AddTransaction requests in one behaviour
MaxFaults == 1     \* number of requests that end without a commit

Procs == {1, 2}            \* request handlers (goroutines of the server)
Securities == {"S1"}       \* securities of the one portfolio
Quantities == {1, 2}       \* input.Quantity of a trade
Prices == {1, 2}           \* input.Price
Commissions == {0, 1}      \* input.Commission
SplitRatios == {2, 3}      \* input.Quantity of a split
Years == {2024}            \* year of a tax report

\* time.Date(y, m, d, ...): a calendar day, the value of a DATE column
Date(y, m, d) == [y |-> y, m |-> m, d |-> d]
\* date <= date of the database
DateLE(a, b) ==
    \/ a.y < b.y
    \/ a.y = b.y /\ a.m < b.m
    \/ a.y = b.y /\ a.m = b.m /\ a.d <= b.d
\* input.Date of the trades that are tried
TradeDates == {Date(2024, 6, 15)}

\* InvestmentTransactionCreate: the requests that are tried.  Price and
\* commission of a split or a dividend reach no holding and are fixed.
Trades ==
    [type : {"buy", "sell"}, qty : Quantities, price : Prices,
     comm : Commissions]
TxInputs ==
    Trades
    \cup [type : {"split"}, qty : SplitRatios, price : {1}, comm : {0}]
    \cup [type : {"dividend", "coupon"}, qty : {1}, price : {1}, comm : {0}]
\* the trades that are tried against each other
ConcurrentInputs ==
    [type : {"buy", "sell"}, qty : Quantities, price : {1}, comm : {0}]
\* binding:"required" is the only validation of Quantity: a negative
\* quantity is bound like any other.
UncheckedInputs ==
    TxInputs \cup [type : {"buy"}, qty : {-1}, price : {1}, comm : {0}]

None == [none |-> TRUE]        \* no row (pgx.ErrNoRows)
NotRead == [notread |-> TRUE]  \* the handler has read no Holding yet

\* ------------------------------------------------------------- decimals
RECURSIVE Pow10(_)
Pow10(n) == IF n <= 0 THEN 1 ELSE 10 * Pow10(n - 1)

Abs(x) == IF x < 0 THEN -x ELSE x
Sign(x) == IF x < 0 THEN -1 ELSE IF x > 0 THEN 1 ELSE 0
MaxOf(a, b) == IF a >= b THEN a ELSE b

Dec(v, e) == [v |-> v, e |-> e]
NewFromInt(n) == Dec(n, 0)
Rescale(d, e) == Dec(d.v * Pow10(e - d.e), e)

DAdd(a, b) ==
    LET e == MaxOf(a.e, b.e) IN Dec(Rescale(a, e).v + Rescale(b, e).v, e)
DSub(a, b) ==
    LET e == MaxOf(a.e, b.e) IN Dec(Rescale(a, e).v - Rescale(b, e).v, e)
DMul(a, b) == Dec(a.v * b.v, a.e + b.e)
DCmp(a, b) ==
    LET e == MaxOf(a.e, b.e) IN Sign(Rescale(a, e).v - Rescale(b, e).v)
LessThan(a, b) == DCmp(a, b) < 0
LessThanOrEqual(a, b) == DCmp(a, b) <= 0
IsZero(a) == a.v = 0
DAbs(d) == Dec(Abs(d.v), d.e)
DZero == Dec(0, 0)

\* Long division of n * 10^k by d (n >= 0, d > 0): quotient and remainder,
\* one decimal digit at a time.
RECURSIVE QuoRemDigits(_, _, _, _)
QuoRemDigits(q, r, d, k) ==
    IF k <= 0 THEN [q |-> q, r |-> r]
    ELSE QuoRemDigits(q * 10 + ((r * 10) \div d), (r * 10) % d, d, k - 1)

\* |a| * 10^k / |b| rounded half away from zero, k >= 0.
DivMagnitude(n, d, k) ==
    LET qr == QuoRemDigits(n \div d, n % d, d, k)
    IN  IF 2 * qr.r >= d THEN qr.q + 1 ELSE qr.q

\* decimal.DivRound: a / b to prec digits, half away from zero.  b # 0.
DivRound(a, b, prec) ==
    LET k == prec + b.e - a.e
        d == IF k >= 0 THEN Abs(b.v) ELSE Abs(b.v) * Pow10(-k)
        kk == IF k >= 0 THEN k ELSE 0
        m == DivMagnitude(Abs(a.v), d, kk)
    IN  Dec(Sign(a.v) * Sign(b.v) * m, prec)
Div(a, b) == DivRound(a, b, DivisionPrecision)

\* Rounding of a value to a column's scale, half away from zero; the
\* result is the integer number of 10^-s units.
RoundTo(d, s) ==
    IF d.e <= s THEN d.v * Pow10(s - d.e)
    ELSE LET p == Pow10(d.e - s)
             q == Abs(d.v) \div p
             r == Abs(d.v) % p
         IN  Sign(d.v) * (IF 2 * r >= p THEN q + 1 ELSE q)

Qty(n) == Dec(n, QtyScale)        \* a stored quantity as a decimal
Price(n) == Dec(n, PriceScale)    \* a stored price as a decimal
Cost(n) == Dec(n, CostScale)      \* a stored cost as a decimal

\* ---------------------------------------------------------------- state
VARIABLES
    txRows,        \* committed rows of investment_transactions
    holdings,      \* holdings table: security -> row or None (UNIQUE pair)
    nextTxId,      \* next investment_transactions.id
    nextHoldingId, \* next holdings.id
    pc,            \* position of each request handler
    req,           \* the handler's request: op, tx, and (history) the
                   \* Holding of tx's pair when the request arrived
    held,          \* what GetByPortfolioAndSecurity returned to the handler
    applied,       \* history: updateHoldingOn*/revert* returned nil in the request
    result,        \* outcome of the handler's request
    faults,        \* number of requests ended without a commit so far
    reply          \* what the last read endpoint was asked and returned

vars == <<txRows, holdings, nextTxId, nextHoldingId, pc, req, held, applied,
          result, faults, reply>>

NoReq == [op |-> "none"]
NoReply == [op |-> "none"]

\* quantity, average_price and total_cost of a row, or None
View(row) ==
    IF row = None THEN None
    ELSE [qty |-> row.qty, avg |-> row.avg, cost |-> row.cost]

\* ------------------------------------------------- holdingRepository
\* (variant for C11: the upsert writes what the caller computed from the
\* Holding it saw on arrival, instead of adding to the row as it is)
HoldingCreateOverwrite(h, sec, hid, quantity, averagePrice, totalCost) ==
    [h EXCEPT ![sec] = [id |-> IF h[sec] = None THEN hid ELSE h[sec].id,
                        qty |-> RoundTo(quantity, QtyScale),
                        avg |-> RoundTo(averagePrice, PriceScale),
                        cost |-> RoundTo(totalCost, CostScale)]]

\* INSERT ... ON CONFLICT (portfolio_id, security_id) DO UPDATE: a new row
\* takes the given values, an existing row is merged.  The values are
\* rounded by the columns; the quotient is computed by the database.
HoldingCreate(h, sec, hid, quantity, averagePrice, totalCost) ==
    LET q == RoundTo(quantity, QtyScale)
        c == RoundTo(totalCost, CostScale)
    IN  IF h[sec] = None
        THEN [h EXCEPT ![sec] = [id |-> hid, qty |-> q,
                                 avg |-> RoundTo(averagePrice, PriceScale),
                                 cost |-> c]]
        ELSE [h EXCEPT ![sec] =
                 [id |-> h[sec].id, qty |-> h[sec].qty + q,
                  avg |-> RoundTo(Div(Cost(h[sec].cost + c),
                                      Qty(h[sec].qty + q)), PriceScale),
                  cost |-> h[sec].cost + c]]

\* NULLIF(quantity, 0) makes average_price NULL, which the column rejects.
HoldingCreateFails(h, sec, quantity) ==
    /\ h[sec] # None
    /\ h[sec].qty + RoundTo(quantity, QtyScale) = 0

\* UPDATE holdings SET ... WHERE id = $1
HoldingUpdate(h, id, quantity, avgPrice, totalCost) ==
    [s \in DOMAIN h |->
        IF h[s] # None /\ h[s].id = id
        THEN [id |-> id, qty |-> RoundTo(quantity, QtyScale),
              avg |-> RoundTo(avgPrice, PriceScale),
              cost |-> RoundTo(totalCost, CostScale)]
        ELSE h[s]]

\* DELETE FROM holdings WHERE portfolio_id, security_id AND quantity <= 0
DeleteIfZero(h, sec) ==
    IF h[sec] # None /\ h[sec].qty <= 0 THEN [h EXCEPT ![sec] = None] ELSE h

\* --------------------------------------------------- investmentService
\* updateHoldingOnBuy: one upsert of quantity, price, quantity*price+commission
UpdateHoldingOnBuy(h, sec, hid, quantity, price, commission) ==
    HoldingCreate(h, sec, hid, quantity, price,
                  DAdd(DMul(quantity, price), commission))

\* (variant for C4: the quantity comparison is missing)
InsufficientSharesNoCompare(hd, quantity) ==
    hd = None

\* updateHoldingOnSell: no Holding, or fewer shares than are sold
InsufficientShares(hd, quantity) ==
    hd = None \/ LessThan(Qty(hd.qty), quantity)

\* (variant for C9: the remaining cost is recomputed from the average price)
UpdateHoldingOnSellFromAvg(h, sec, hd, quantity) ==
    LET newQuantity == DSub(Qty(hd.qty), quantity)
    IN  IF IsZero(newQuantity) \/ LessThan(newQuantity, DZero)
        THEN DeleteIfZero(h, sec)
        ELSE HoldingUpdate(h, hd.id, newQuantity, Price(hd.avg),
                           DMul(newQuantity, Price(hd.avg)))

\* updateHoldingOnSell after the insufficient-shares check, from the
\* Holding hd that was read.
UpdateHoldingOnSell(h, sec, hd, quantity) ==
    LET newQuantity == DSub(Qty(hd.qty), quantity)
        costReduction == DMul(Div(quantity, Qty(hd.qty)), Cost(hd.cost))
        newTotalCost == DSub(Cost(hd.cost), costReduction)
    IN  IF IsZero(newQuantity) \/ LessThan(newQuantity, DZero)
        THEN DeleteIfZero(h, sec)
        ELSE HoldingUpdate(h, hd.id, newQuantity, Price(hd.avg), newTotalCost)

\* (variant for C12: the average price is not divided by the ratio)
UpdateHoldingOnSplitKeepAvg(h, hd, ratio) ==
    HoldingUpdate(h, hd.id, DMul(Qty(hd.qty), ratio), Price(hd.avg),
                  Cost(hd.cost))

\* updateHoldingOnSplit from the Holding hd that was read.
UpdateHoldingOnSplit(h, hd, ratio) ==
    HoldingUpdate(h, hd.id, DMul(Qty(hd.qty), ratio),
                  Div(Price(hd.avg), ratio), Cost(hd.cost))

\* revertBuyTransaction from the Holding hd that was read.
RevertBuyTransaction(h, sec, hd, tx) ==
    LET newQuantity == DSub(Qty(hd.qty), Qty(tx.qty))
        newTotalCost == DSub(Cost(hd.cost), Cost(tx.amount))
    IN  IF LessThanOrEqual(newQuantity, DZero)
           \/ LessThanOrEqual(newTotalCost, DZero)
        THEN DeleteIfZero(h, sec)
        ELSE HoldingUpdate(h, hd.id, newQuantity,
                           Div(newTotalCost, newQuantity), newTotalCost)

\* revertSellTransaction: a buy at the sale's quantity, price, commission
RevertSellTransaction(h, sec, hid, tx) ==
    UpdateHoldingOnBuy(h, sec, hid, Qty(tx.qty), Price(tx.price),
                       Cost(tx.comm))

\* revertSplitTransaction from the Holding hd that was read.
RevertSplitTransaction(h, hd, tx) ==
    LET reverseRatio == Div(NewFromInt(1), Qty(tx.qty))
    IN  HoldingUpdate(h, hd.id, DMul(Qty(hd.qty), reverseRatio),
                      Div(Price(hd.avg), reverseRatio), Cost(hd.cost))

\* (variant for C15: a dividend or coupon is applied to the Holding as a buy)
HoldingCaseIncomeBuys(type) ==
    IF type \in {"dividend", "coupon"} THEN "buy" ELSE type

\* switch input.Type / tx.Type: the case that is run for a transaction
\* type; dividends and coupons reach no holding
HoldingCase(type) ==
    IF type \in {"dividend", "coupon"} THEN "none" ELSE type

\* ----------------------------------------------------------------- Init
Init ==
    /\ txRows = {}
    /\ holdings = [s \in Securities |-> None]
    /\ nextTxId = 1
    /\ nextHoldingId = 1
    /\ pc = [p \in Procs |-> "idle"]
    /\ req = [p \in Procs |-> NoReq]
    /\ held = [p \in Procs |-> NotRead]
    /\ applied = [p \in Procs |-> FALSE]
    /\ result = [p \in Procs |-> "none"]
    /\ faults = 0
    /\ reply = NoReply

InTx == {"a_insert", "a_hold", "a_sell_write", "a_split_write",
         "d_delete", "d_revert", "d_buy_write", "d_split_write", "commit"}

\* the service call returns r to the HTTP handler
Return(p, r) ==
    /\ pc' = [pc EXCEPT ![p] = "done"]
    /\ result' = [result EXCEPT ![p] = r]

\* ------------------------------------------------------- AddTransaction
\* Lookups of security and portfolio, construction of tx, and Begin.
AddStart(p, inputs) ==
    /\ pc[p] = "idle"
    /\ nextTxId <= MaxTx
    /\ \E sec \in Securities, in \in inputs, date \in TradeDates :
          req' = [req EXCEPT ![p] =
                    [op |-> "add", before |-> View(holdings[sec]),
                     tx |-> [id |-> nextTxId, sec |-> sec, type |-> in.type,
                             date |-> date,
                             qty |-> RoundTo(NewFromInt(in.qty), QtyScale),
                             price |-> RoundTo(NewFromInt(in.price),
                                               PriceScale),
                             comm |-> RoundTo(NewFromInt(in.comm), CostScale),
                             amount |-> RoundTo(
                                 DAdd(DMul(NewFromInt(in.qty),
                                           NewFromInt(in.price)),
                                      NewFromInt(in.comm)), CostScale)]]]
    /\ nextTxId' = nextTxId + 1
    /\ pc' = [pc EXCEPT ![p] = "a_insert"]
    /\ UNCHANGED <<txRows, holdings, nextHoldingId, held, applied, result,
                   faults>>
    /\ UNCHANGED reply

\* investmentRepo.Create(txCtx, tx): the row is written inside the database
\* transaction and stays invisible until Commit.
AddInsert(p) ==
    /\ pc[p] = "a_insert"
    /\ pc' = [pc EXCEPT ![p] =
                IF HoldingCase(req[p].tx.type) = "none" THEN "commit"
                ELSE "a_hold"]
    /\ UNCHANGED <<txRows, holdings, nextTxId, nextHoldingId, req, held,
                   applied, result, faults>>
    /\ UNCHANGED reply

\* case buy: updateHoldingOnBuy -> holdingRepo.Create on the pool.
AddBuy(p) ==
    /\ pc[p] = "a_hold"
    /\ HoldingCase(req[p].tx.type) = "buy"
    /\ LET tx == req[p].tx IN
       IF HoldingCreateFails(holdings, tx.sec, Qty(tx.qty))
       THEN /\ Return(p, "error")
            /\ UNCHANGED <<holdings, nextHoldingId, applied>>
       ELSE /\ holdings' = UpdateHoldingOnBuy(holdings, tx.sec,
                               nextHoldingId, Qty(tx.qty), Price(tx.price),
                               Cost(tx.comm))
            /\ nextHoldingId' = IF holdings[tx.sec] = None
                                THEN nextHoldingId + 1 ELSE nextHoldingId
            /\ applied' = [applied EXCEPT ![p] = TRUE]
            /\ pc' = [pc EXCEPT ![p] = "commit"]
            /\ UNCHANGED result
    /\ UNCHANGED <<txRows, nextTxId, req, held, faults>>
    /\ UNCHANGED reply

\* case sell: updateHoldingOnSell reads the Holding and checks the quantity.
AddSellGet(p) ==
    /\ pc[p] = "a_hold"
    /\ HoldingCase(req[p].tx.type) = "sell"
    /\ held' = [held EXCEPT ![p] = holdings[req[p].tx.sec]]
    /\ IF InsufficientShares(holdings[req[p].tx.sec], Qty(req[p].tx.qty))
       THEN Return(p, "ErrInsufficientShares")
       ELSE /\ pc' = [pc EXCEPT ![p] = "a_sell_write"]
            /\ UNCHANGED result
    /\ UNCHANGED <<txRows, holdings, nextTxId, nextHoldingId, req, applied,
                   faults>>
    /\ UNCHANGED reply

\* ... and then deletes or updates it on the pool.
AddSellWrite(p) ==
    /\ pc[p] = "a_sell_write"
    /\ holdings' = UpdateHoldingOnSell(holdings, req[p].tx.sec, held[p],
                                       Qty(req[p].tx.qty))
    /\ applied' = [applied EXCEPT ![p] = TRUE]
    /\ pc' = [pc EXCEPT ![p] = "commit"]
    /\ UNCHANGED <<txRows, nextTxId, nextHoldingId, req, held, result, faults>>
    /\ UNCHANGED reply

\* case split: updateHoldingOnSplit reads the Holding (no row is an error).
AddSplitGet(p) ==
    /\ pc[p] = "a_hold"
    /\ HoldingCase(req[p].tx.type) = "split"
    /\ held' = [held EXCEPT ![p] = holdings[req[p].tx.sec]]
    /\ IF holdings[req[p].tx.sec] = None
       THEN Return(p, "error")
       ELSE /\ pc' = [pc EXCEPT ![p] = "a_split_write"]
            /\ UNCHANGED result
    /\ UNCHANGED <<txRows, holdings, nextTxId, nextHoldingId, req, applied,
                   faults>>
    /\ UNCHANGED reply

AddSplitWrite(p) ==
    /\ pc[p] = "a_split_write"
    /\ holdings' = UpdateHoldingOnSplit(holdings, held[p], Qty(req[p].tx.qty))
    /\ applied' = [applied EXCEPT ![p] = TRUE]
    /\ pc' = [pc EXCEPT ![p] = "commit"]
    /\ UNCHANGED <<txRows, nextTxId, nextHoldingId, req, held, result, faults>>
    /\ UNCHANGED reply

\* ---------------------------------------------------- DeleteTransaction
\* investmentRepo.GetByID(ctx, id) on the pool, before the transaction is
\* begun; an unknown id is returned as an error.
DeleteStart(p) ==
    /\ pc[p] = "idle"
    /\ \E id \in 1..MaxTx :
          IF \E r \in txRows : r.id = id
          THEN /\ req' = [req EXCEPT ![p] =
                     [op |-> "delete",
                      before |-> View(holdings[
                          (CHOOSE r \in txRows : r.id = id).sec]),
                      tx |-> CHOOSE r \in txRows : r.id = id]]
               /\ pc' = [pc EXCEPT ![p] = "d_delete"]
               /\ UNCHANGED result
          ELSE /\ req' = [req EXCEPT ![p] = [op |-> "delete_unknown",
                                             id |-> id]]
               /\ Return(p, "error")
    /\ UNCHANGED <<txRows, holdings, nextTxId, nextHoldingId, held, applied,
                   faults>>
    /\ UNCHANGED reply

\* a handler that deleted the row in its open transaction holds the row lock
HoldsRowLock(q, id) ==
    /\ pc[q] \in {"d_revert", "d_buy_write", "d_split_write", "commit"}
    /\ req[q].op = "delete"
    /\ req[q].tx.id = id

\* investmentRepo.Delete(txCtx, id): deletes the row inside the database
\* transaction; it waits while another transaction has the row deleted, and
\* deletes nothing when the row is gone.
DeleteRow(p) ==
    /\ pc[p] = "d_delete"
    /\ (\E r \in txRows : r.id = req[p].tx.id)
          => ~ \E q \in Procs \ {p} : HoldsRowLock(q, req[p].tx.id)
    /\ pc' = [pc EXCEPT ![p] =
                IF HoldingCase(req[p].tx.type) = "none" THEN "commit"
                ELSE "d_revert"]
    /\ UNCHANGED <<txRows, holdings, nextTxId, nextHoldingId, req, held,
                   applied, result, faults>>
    /\ UNCHANGED reply

\* case buy: revertBuyTransaction reads the Holding; without one it returns
\* nil and nothing is written.
DeleteBuyGet(p) ==
    /\ pc[p] = "d_revert"
    /\ HoldingCase(req[p].tx.type) = "buy"
    /\ held' = [held EXCEPT ![p] = holdings[req[p].tx.sec]]
    /\ pc' = [pc EXCEPT ![p] =
                IF holdings[req[p].tx.sec] = None THEN "commit"
                ELSE "d_buy_write"]
    /\ applied' = [applied EXCEPT ![p] = (holdings[req[p].tx.sec] = None)]
    /\ UNCHANGED <<txRows, holdings, nextTxId, nextHoldingId, req, result,
                   faults>>
    /\ UNCHANGED reply

DeleteBuyWrite(p) ==
    /\ pc[p] = "d_buy_write"
    /\ holdings' = RevertBuyTransaction(holdings, req[p].tx.sec, held[p],
                                        req[p].tx)
    /\ applied' = [applied EXCEPT ![p] = TRUE]
    /\ pc' = [pc EXCEPT ![p] = "commit"]
    /\ UNCHANGED <<txRows, nextTxId, nextHoldingId, req, held, result, faults>>
    /\ UNCHANGED reply

\* case sell: revertSellTransaction -> updateHoldingOnBuy on the pool.
DeleteSell(p) ==
    /\ pc[p] = "d_revert"
    /\ HoldingCase(req[p].tx.type) = "sell"
    /\ LET tx == req[p].tx IN
       IF HoldingCreateFails(holdings, tx.sec, Qty(tx.qty))
       THEN /\ Return(p, "error")
            /\ UNCHANGED <<holdings, nextHoldingId, applied>>
       ELSE /\ holdings' = RevertSellTransaction(holdings, tx.sec,
                                                 nextHoldingId, tx)
            /\ nextHoldingId' = IF holdings[tx.sec] = None
                                THEN nextHoldingId + 1 ELSE nextHoldingId
            /\ applied' = [applied EXCEPT ![p] = TRUE]
            /\ pc' = [pc EXCEPT ![p] = "commit"]
            /\ UNCHANGED result
    /\ UNCHANGED <<txRows, nextTxId, req, held, faults>>
    /\ UNCHANGED reply

\* case split: revertSplitTransaction reads the Holding; without one it
\* returns nil.
DeleteSplitGet(p) ==
    /\ pc[p] = "d_revert"
    /\ HoldingCase(req[p].tx.type) = "split"
    /\ held' = [held EXCEPT ![p] = holdings[req[p].tx.sec]]
    /\ pc' = [pc EXCEPT ![p] =
                IF holdings[req[p].tx.sec] = None THEN "commit"
                ELSE "d_split_write"]
    /\ applied' = [applied EXCEPT ![p] = (holdings[req[p].tx.sec] = None)]
    /\ UNCHANGED <<txRows, holdings, nextTxId, nextHoldingId, req, result,
                   faults>>
    /\ UNCHANGED reply

DeleteSplitWrite(p) ==
    /\ pc[p] = "d_split_write"
    /\ holdings' = RevertSplitTransaction(holdings, held[p], req[p].tx)
    /\ applied' = [applied EXCEPT ![p] = TRUE]
    /\ pc' = [pc EXCEPT ![p] = "commit"]
    /\ UNCHANGED <<txRows, nextTxId, nextHoldingId, req, held, result, faults>>
    /\ UNCHANGED reply

\* ------------------------------------------------------ txManager.WithTx
\* fn returned nil: tx.Commit makes the transaction's row changes visible.
Commit(p) ==
    /\ pc[p] = "commit"
    /\ txRows' = IF req[p].op = "add" THEN txRows \cup {req[p].tx}
                 ELSE {r \in txRows : r.id # req[p].tx.id}
    /\ Return(p, "ok")
    /\ UNCHANGED <<holdings, nextTxId, nextHoldingId, req, held, applied, faults>>
    /\ UNCHANGED reply

\* The open transaction ends without a commit: the next statement or the
\* commit returns an error and WithTx rolls back, or the connection or the
\* process is lost.  What was written through the transaction is dropped;
\* what was written through the pool stays.
Abort(p) ==
    /\ pc[p] \in InTx
    /\ faults < MaxFaults
    /\ faults' = faults + 1
    /\ Return(p, "error")
    /\ UNCHANGED <<txRows, holdings, nextTxId, nextHoldingId, req, held,
                   applied>>
    /\ UNCHANGED reply

\* The HTTP handler writes the response; the goroutine serves the next
\* request.
Respond(p) ==
    /\ pc[p] = "done"
    /\ pc' = [pc EXCEPT ![p] = "idle"]
    /\ req' = [req EXCEPT ![p] = NoReq]
    /\ held' = [held EXCEPT ![p] = NotRead]
    /\ applied' = [applied EXCEPT ![p] = FALSE]
    /\ result' = [result EXCEPT ![p] = "none"]
    /\ UNCHANGED <<txRows, holdings, nextTxId, nextHoldingId, faults>>
    /\ UNCHANGED reply

\* ----------------------------------------------------------- GetTaxReport
\* decimal.NewFromFloat(0.13)
TaxRate == Dec(13, 2)

\* (variant for C17: the last day of the year is left out)
GetByDateRangeBeforeLastDay(rows, year) ==
    {r \in rows : /\ DateLE(Date(year, 1, 1), r.date)
                  /\ DateLE(r.date, Date(year, 12, 30))}

\* investmentRepo.GetByDateRange(startDate, endDate) with startDate
\* January 1 and endDate December 31 of the year
GetByDateRange(rows, year) ==
    {r \in rows : /\ DateLE(Date(year, 1, 1), r.date)
                  /\ DateLE(r.date, Date(year, 12, 31))}

\* a models.TaxReport as it is declared: every amount zero
NewTaxReport ==
    [TotalDividends |-> DZero, TotalCoupons |-> DZero,
     RealizedGains |-> DZero, RealizedLosses |-> DZero, NetGain |-> DZero,
     TaxableAmount |-> DZero, EstimatedTax |-> DZero]

\* for _, tx := range transactions: the sums are exact, so the order in
\* which the rows are taken does not show in the result
RECURSIVE TaxLoop(_, _, _)
TaxLoop(report, transactions, holdingMap) ==
    IF transactions = {} THEN report
    ELSE
      LET tx == CHOOSE t \in transactions : TRUE
          proceeds == DSub(DMul(Qty(tx.qty), Price(tx.price)), Cost(tx.comm))
          costBasis ==
              IF holdingMap[tx.sec] # None
              THEN DMul(Qty(tx.qty), Price(holdingMap[tx.sec].avg))
              ELSE DMul(Qty(tx.qty), Price(tx.price))
          profitLoss == DSub(proceeds, costBasis)
          next ==
              CASE tx.type = "dividend" ->
                     [report EXCEPT !.TotalDividends = DAdd(@, Cost(tx.amount))]
                [] tx.type = "coupon" ->
                     [report EXCEPT !.TotalCoupons = DAdd(@, Cost(tx.amount))]
                [] tx.type = "sell" ->
                     IF ~ LessThan(profitLoss, DZero)
                     THEN [report EXCEPT !.RealizedGains = DAdd(@, profitLoss)]
                     ELSE [report EXCEPT
                              !.RealizedLosses = DAdd(@, DAbs(profitLoss))]
                [] OTHER -> report
      IN  TaxLoop(next, transactions \ {tx}, holdingMap)

\* (variant for C19: the net result is added to the taxable income also
\* when it is a loss)
TaxReportNetAlways(rows, holdingMap, year) ==
    LET r == TaxLoop(NewTaxReport, GetByDateRange(rows, year), holdingMap)
        net == DSub(r.RealizedGains, r.RealizedLosses)
        taxableIncome == DAdd(DAdd(r.TotalDividends, r.TotalCoupons), net)
    IN  [r EXCEPT !.NetGain = net, !.TaxableAmount = taxableIncome,
                  !.EstimatedTax = DMul(taxableIncome, TaxRate)]

\* the report GetTaxReport builds from the rows and the holdings it read
TaxReport(rows, holdingMap, year) ==
    LET r == TaxLoop(NewTaxReport, GetByDateRange(rows, year), holdingMap)
        income == DAdd(r.TotalDividends, r.TotalCoupons)
        gain == LessThan(r.RealizedLosses, r.RealizedGains)
        net == IF gain THEN DSub(r.RealizedGains, r.RealizedLosses)
               ELSE DZero
        taxableIncome == IF gain THEN DAdd(income, net) ELSE income
    IN  [r EXCEPT !.NetGain = net, !.TaxableAmount = taxableIncome,
                  !.EstimatedTax = DMul(taxableIncome, TaxRate)]

\* GetTaxReport(ctx, portfolioID, year): a failed GetByDateRange is
\* returned as the error; after a failed holdingRepo.GetByPortfolioID the
\* report is built without holdings.
GetTaxReport ==
    /\ \E year \in Years, read \in {"ok", "no_holdings", "error"} :
          reply' =
            IF read = "error" THEN [op |-> "tax_error", year |-> year]
            ELSE [op |-> "tax", year |-> year,
                  holdingsRead |-> (read = "ok"),
                  report |-> TaxReport(txRows,
                                IF read = "ok" THEN holdings
                                ELSE [s \in DOMAIN holdings |-> None],
                                year)]
    /\ UNCHANGED <<txRows, holdings, nextTxId, nextHoldingId, pc, req, held,
                   applied, result, faults>>

\* ------------------------------------------- GetHoldings, enrichHoldings
\* the securities table of the portfolios that are read: ticker, exchange
\* (UNIQUE together), type, currency, sector (may be empty) and the last
\* price kept with the security
ListedSecurities == {"S1", "S2", "S3"}
SecurityInfo ==
    [s \in ListedSecurities |->
        CASE s = "S1" -> [ticker |-> "AAA", exchange |-> "MOEX", lastPrice |-> 0,
                          type |-> "stock", currency |-> "RUB",
                          sector |-> "Energy"]
          [] s = "S2" -> [ticker |-> "BBB", exchange |-> "NYSE", lastPrice |-> 2,
                          type |-> "bond", currency |-> "USD", sector |-> ""]
          [] s = "S3" -> [ticker |-> "AAA", exchange |-> "NYSE", lastPrice |-> 0,
                          type |-> "stock", currency |-> "USD",
                          sector |-> "Tech"]]
\* the Security of a holding row as GetByPortfolioID scans it: ticker, name,
\* type, exchange, currency and last_price are selected, every other field
\* keeps its zero value
ScannedSecurity(s) == [SecurityInfo[s] EXCEPT !.sector = ""]
\* quote.LastPrice of every ticker an exchange quotes
QuotePrices == [ex \in {"MOEX", "NYSE"} |-> IF ex = "MOEX" THEN 1 ELSE 3]
QuoteError == [error |-> TRUE] \* GetQuotes returned an error
NoQuotes == [t \in {} |-> 0]   \* make(map[string]*models.MarketQuote)

\* (variant for C21: the repository computes nothing, the computed fields
\* stay zero until a quote fills them)
CalculateValuesZero(row, s) ==
    [sec |-> s, qty |-> row.qty, avg |-> row.avg, cost |-> row.cost,
     CurrentPrice |-> DZero, CurrentValue |-> DZero, Profit |-> DZero,
     ProfitPercent |-> DZero, Weight |-> DZero]

\* Holding.CalculateValues, run by the repository on every row it returns:
\* the computed fields from Security.LastPrice
CalculateValues(row, s) ==
    LET currentPrice == Price(RoundTo(NewFromInt(SecurityInfo[s].lastPrice),
                                      PriceScale))
        currentValue == DMul(Qty(row.qty), currentPrice)
        profit == DSub(currentValue, Cost(row.cost))
    IN  [sec |-> s, qty |-> row.qty, avg |-> row.avg, cost |-> row.cost,
         CurrentPrice |-> currentPrice,
         CurrentValue |-> currentValue,
         Profit |-> profit,
         ProfitPercent |->
             IF LessThan(DZero, Cost(row.cost))
             THEN DMul(Div(profit, Cost(row.cost)), NewFromInt(100))
             ELSE DZero,
         Weight |-> DZero]

\* holdingRepo.GetByPortfolioID: the rows of the portfolio
GetByPortfolioID(h) ==
    {CalculateValues(h[s], s) : s \in {x \in DOMAIN h : h[x] # None}}

\* exchangeGroups: the exchanges of the holdings, and each one's tickers
ExchangeGroups(list) == {SecurityInfo[hd.sec].exchange : hd \in list}
GroupTickers(list, exchange) ==
    {SecurityInfo[hd.sec].ticker :
        hd \in {x \in list : SecurityInfo[x.sec].exchange = exchange}}

\* what marketProvider.GetQuotes can answer: an error, or quotes for some
\* of the tickers asked for
QuoteMaps(exchange, tickers) ==
    {[t \in T |-> QuotePrices[exchange]] : T \in SUBSET tickers}
MarketResponses(list) ==
    {m \in [ExchangeGroups(list) ->
               {QuoteError}
               \cup UNION {QuoteMaps(ex, {"AAA", "BBB"}) :
                              ex \in ExchangeGroups(list)}] :
        \A ex \in ExchangeGroups(list) :
            \/ m[ex] = QuoteError
            \/ m[ex] \in QuoteMaps(ex, GroupTickers(list, ex))}
\* the orders in which range exchangeGroups can visit the groups
GroupOrders(list) ==
    {o \in [1..Cardinality(ExchangeGroups(list)) -> ExchangeGroups(list)] :
        \A i, j \in DOMAIN o : i # j => o[i] # o[j]}

\* (variant for C20: the first failing group ends the enrichment with its
\* error)
AllQuotesFailFast(acc, market, order, i) ==
    [err |-> \E ex \in DOMAIN market : market[ex] = QuoteError,
     quotes |-> NoQuotes]

\* allQuotes: the groups' answers merged by ticker in the order the groups
\* are visited, a failing group skipped
RECURSIVE AllQuotes(_, _, _, _)
AllQuotes(acc, market, order, i) ==
    IF i > Len(order) THEN acc
    ELSE LET quotes == market[order[i]]
         IN  IF quotes = QuoteError
             THEN AllQuotes(acc, market, order, i + 1)
             ELSE AllQuotes(
                    [acc EXCEPT !.quotes =
                        [t \in DOMAIN acc.quotes \cup DOMAIN quotes |->
                            IF t \in DOMAIN quotes THEN quotes[t]
                            ELSE acc.quotes[t]]],
                    market, order, i + 1)

\* totalPortfolioValue: the sum of Quantity * LastPrice over the holdings
\* that have a quote
RECURSIVE TotalPortfolioValue(_, _)
TotalPortfolioValue(list, quotes) ==
    IF list = {} THEN DZero
    ELSE LET hd == CHOOSE x \in list : TRUE
             rest == TotalPortfolioValue(list \ {hd}, quotes)
         IN  IF SecurityInfo[hd.sec].ticker \in DOMAIN quotes
             THEN DAdd(rest, DMul(Qty(hd.qty),
                                  NewFromInt(quotes[SecurityInfo[hd.sec].ticker])))
             ELSE rest

\* the computed fields of one holding from its quote and the total
Enriched(hd, quotes, total) ==
    LET lastPrice == NewFromInt(quotes[SecurityInfo[hd.sec].ticker])
        currentValue == DMul(Qty(hd.qty), lastPrice)
        profit == DSub(currentValue, Cost(hd.cost))
    IN  [hd EXCEPT
            !.CurrentPrice = lastPrice,
            !.CurrentValue = currentValue,
            !.Profit = profit,
            !.ProfitPercent =
                IF LessThan(DZero, Cost(hd.cost))
                THEN DMul(Div(profit, Cost(hd.cost)), NewFromInt(100))
                ELSE @,
            !.Weight =
                IF LessThan(DZero, total)
                THEN DMul(Div(currentValue, total), NewFromInt(100))
                ELSE @]

\* enrichHoldings: the computed fields of every holding that has a quote
EnrichHoldings(list, market, order) ==
    LET all == AllQuotes([err |-> FALSE, quotes |-> NoQuotes], market,
                         order, 1)
        total == TotalPortfolioValue(list, all.quotes)
    IN  [err |-> all.err,
         list |-> IF all.err THEN list
                  ELSE {IF SecurityInfo[hd.sec].ticker \in DOMAIN all.quotes
                        THEN Enriched(hd, all.quotes, total) ELSE hd :
                           hd \in list}]

\* the read endpoints change nothing
ReadOnly ==
    UNCHANGED <<txRows, holdings, nextTxId, nextHoldingId, pc, req, held,
                applied, result, faults>>

\* GetHoldings: a failed holdingRepo.GetByPortfolioID is returned as the
\* error; an error of enrichHoldings is not: the holdings are returned as
\* they were read.
GetHoldings ==
    /\ \/ reply' = [op |-> "holdings", holdingsRead |-> FALSE, err |-> TRUE]
       \/ \E list \in {GetByPortfolioID(holdings)} :
             \E market \in MarketResponses(list),
                order \in GroupOrders(list) :
                \E e \in {EnrichHoldings(list, market, order)} :
                   reply' = [op |-> "holdings", holdingsRead |-> TRUE,
                             err |-> FALSE, market |-> market,
                             order |-> order,
                             holdings |-> IF e.err THEN list ELSE e.list]
    /\ ReadOnly

\* sum of the current values, or of the total costs, of the holdings
RECURSIVE SumField(_, _)
SumField(list, field) ==
    IF list = {} THEN DZero
    ELSE LET hd == CHOOSE x \in list : TRUE
         IN  DAdd(IF field = "CurrentValue" THEN hd.CurrentValue
                  ELSE Cost(hd.cost),
                  SumField(list \ {hd}, field))

\* AllocationByType, AllocationBySector, AllocationByCurrency: the current
\* values summed by the field of the holdings' Security (an empty sector
\* makes no bucket), converted to percent of totalValue when it is positive
Allocation(list, field, totalValue) ==
    LET keys == {ScannedSecurity(hd.sec)[field] : hd \in list}
                \ (IF field = "sector" THEN {""} ELSE {})
        sum(k) == SumField({hd \in list :
                               ScannedSecurity(hd.sec)[field] = k},
                           "CurrentValue")
    IN  [k \in keys |->
            IF LessThan(DZero, totalValue)
            THEN DMul(Div(sum(k), totalValue), NewFromInt(100))
            ELSE sum(k)]

\* time.Now() of the requests for analytics
RequestDates == {Date(2025, 6, 15)}

\* SUM(amount) of a set of rows
RECURSIVE TotalAmount(_)
TotalAmount(rows) ==
    IF rows = {} THEN 0
    ELSE LET r == CHOOSE x \in rows : TRUE
         IN  r.amount + TotalAmount(rows \ {r})

\* (variant for C24: the dividends of every year are summed)
GetTotalDividendsAnyYear(rows, year) ==
    Cost(TotalAmount({r \in rows : r.type = "dividend"}))

\* investmentRepo.GetTotalDividends: COALESCE(SUM(amount), 0) of the
\* dividend rows with EXTRACT(YEAR FROM date) = year
GetTotalDividends(rows, year) ==
    Cost(TotalAmount({r \in rows : r.type = "dividend" /\ r.date.y = year}))

\* GetPortfolioAnalytics: an error of GetByPortfolioID or of enrichHoldings
\* is returned; otherwise the totals and allocations over the enriched
\* holdings and the dividend yield from the dividends of the year before
\* the current one, an error of GetTotalDividends dropped and its total
\* left zero.
GetPortfolioAnalytics ==
    /\ \/ reply' = [op |-> "analytics", holdingsRead |-> FALSE, err |-> TRUE]
       \/ \E list \in {GetByPortfolioID(holdings)} :
             \E market \in MarketResponses(list),
                order \in GroupOrders(list),
                now \in RequestDates, dividendsRead \in BOOLEAN :
                \E e \in {EnrichHoldings(list, market, order)} :
                   \E totalValue \in {SumField(e.list, "CurrentValue")},
                      totalInvested \in {SumField(e.list, "TotalCost")} :
                      LET totalReturn == DSub(totalValue, totalInvested)
                          lastYear == now.y - 1
                          totalDividends ==
                              IF dividendsRead
                              THEN GetTotalDividends(txRows, lastYear)
                              ELSE DZero
                      IN  reply' =
                            IF e.err
                            THEN [op |-> "analytics", holdingsRead |-> TRUE,
                                  err |-> TRUE, market |-> market,
                                  order |-> order]
                            ELSE [op |-> "analytics", holdingsRead |-> TRUE,
                                  err |-> FALSE, market |-> market,
                                  order |-> order,
                                  holdings |-> e.list,
                                  TotalReturn |-> totalReturn,
                                  TotalReturnPct |->
                                      IF LessThan(DZero, totalInvested)
                                      THEN DMul(Div(totalReturn,
                                                    totalInvested),
                                                NewFromInt(100))
                                      ELSE DZero,
                                  AllocationByType |->
                                      Allocation(e.list, "type", totalValue),
                                  AllocationBySector |->
                                      Allocation(e.list, "sector",
                                                 totalValue),
                                  AllocationByCurrency |->
                                      Allocation(e.list, "currency",
                                                 totalValue),
                                  now |-> now,
                                  dividendsRead |-> dividendsRead,
                                  DividendYield |->
                                      IF LessThan(DZero, totalValue)
                                      THEN DMul(Div(totalDividends,
                                                    totalValue),
                                                NewFromInt(100))
                                      ELSE DZero]
    /\ ReadOnly

\* ---------------------------------------------------------- HTTP handlers
\* what a request to the transaction endpoints can meet: a lookup finds the
\* row, finds none, or fails in the storage; the transaction part of the
\* service call succeeds, finds too few shares for a sell (or no Holding),
\* finds no Holding to split, or fails in the storage
Lookups == {"found", "unknown", "storage"}
TransactionTypes == {"buy", "sell", "dividend", "coupon", "split"}
WithTxOutcomes(op, type) ==
    {"ok", "storage"}
    \cup (IF op = "add" /\ type = "sell" THEN {"insufficient"} ELSE {})
    \cup (IF type = "split" THEN {"no_holding"} ELSE {})

\* the error investmentService.AddTransaction returns
AddTransactionError(security, portfolio, outcome) ==
    IF security # "found" THEN "ErrSecurityNotFound"
    ELSE IF portfolio # "found"
         THEN (IF portfolio = "unknown" THEN "pgx.ErrNoRows" ELSE "error")
    ELSE CASE outcome = "ok" -> "nil"
           [] outcome = "insufficient" -> "ErrInsufficientShares"
           [] outcome = "no_holding" -> "pgx.ErrNoRows"
           [] outcome = "storage" -> "error"

\* the error investmentService.DeleteTransaction returns
DeleteTransactionError(transaction, outcome) ==
    IF transaction # "found"
    THEN (IF transaction = "unknown" THEN "pgx.ErrNoRows" ELSE "error")
    ELSE CASE outcome = "ok" -> "nil"
           [] outcome = "no_holding" -> "pgx.ErrNoRows"
           [] outcome = "storage" -> "error"

\* InvestmentHandler.AddTransaction: the status of the response
AddTransactionStatus(bound, err) ==
    IF ~ bound THEN 400
    ELSE IF err = "nil" THEN 201
    ELSE IF err = "ErrSecurityNotFound" THEN 404
    ELSE IF err = "ErrInsufficientShares" THEN 400
    ELSE 500

\* InvestmentHandler.DeleteTransaction: the status of the response
DeleteTransactionStatus(parsed, err) ==
    IF ~ parsed THEN 400
    ELSE IF err = "nil" THEN 200
    ELSE 500

\* POST /investments/transactions
PostTransaction ==
    /\ \E bound \in BOOLEAN, security \in Lookups, portfolio \in Lookups,
          type \in TransactionTypes :
          \E outcome \in WithTxOutcomes("add", type) :
             reply' = [op |-> "post", bound |-> bound,
                       security |-> security, portfolio |-> portfolio,
                       type |-> type, outcome |-> outcome,
                       status |-> AddTransactionStatus(bound,
                                     AddTransactionError(security, portfolio,
                                                         outcome))]
    /\ ReadOnly

\* DELETE /investments/transactions/:id
DeleteTransactionRequest ==
    /\ \E parsed \in BOOLEAN, transaction \in Lookups,
          type \in TransactionTypes :
          \E outcome \in WithTxOutcomes("delete", type) :
             reply' = [op |-> "delete", parsed |-> parsed,
                       transaction |-> transaction, type |-> type,
                       outcome |-> outcome,
                       status |-> DeleteTransactionStatus(parsed,
                                     DeleteTransactionError(transaction,
                                                            outcome))]
    /\ ReadOnly

\* ------------------------------------------------------- specifications
\* the steps of a request that is not about a split
TradeStep(p) ==
    \/ AddInsert(p) \/ AddBuy(p) \/ AddSellGet(p) \/ AddSellWrite(p)
    \/ DeleteStart(p) \/ DeleteRow(p) \/ DeleteBuyGet(p) \/ DeleteBuyWrite(p)
    \/ DeleteSell(p)
    \/ Commit(p) \/ Abort(p) \/ Respond(p)

Step(p) ==
    \/ TradeStep(p)
    \/ AddSplitGet(p) \/ AddSplitWrite(p)
    \/ DeleteSplitGet(p) \/ DeleteSplitWrite(p)

\* one request at a time
Next == AddStart(1, TxInputs) \/ Step(1)
Spec == Init /\ [][Next]_vars

\* one request at a time, negative quantities included
NextUnchecked == AddStart(1, UncheckedInputs) \/ Step(1)
SpecUnchecked == Init /\ [][NextUnchecked]_vars

\* two requests served concurrently; no split is requested, so the split
\* steps are never taken
NextConcurrent ==
    \E p \in Procs : AddStart(p, ConcurrentInputs) \/ TradeStep(p)
SpecConcurrent == Init /\ [][NextConcurrent]_vars

\* The ledgers a tax report is asked of: up to MaxTx recorded transactions
\* of any type, dated on the edges of the report's year and of its
\* neighbours, and a Holding that is absent or has some average price.
ReportDates == {Date(2023, 12, 31), Date(2024, 1, 1), Date(2024, 12, 31)}
Row(id, sec, type, date, quantity, price, commission) ==
    [id |-> id, sec |-> sec, type |-> type, date |-> date,
     qty |-> RoundTo(NewFromInt(quantity), QtyScale),
     price |-> RoundTo(NewFromInt(price), PriceScale),
     comm |-> RoundTo(NewFromInt(commission), CostScale),
     amount |-> RoundTo(DAdd(DMul(NewFromInt(quantity), NewFromInt(price)),
                             NewFromInt(commission)), CostScale)]
RecordedRows(id) ==
    {Row(id, s, "sell", d, q, pr, c) :
        s \in Securities, d \in ReportDates, q \in Quantities,
        pr \in {1, 3}, c \in Commissions}
    \cup {Row(id, s, t, d, q, 1, 0) :
        s \in Securities, t \in {"dividend", "coupon"},
        d \in {Date(2024, 1, 1), Date(2025, 1, 1)}, q \in Quantities}
    \cup {Row(id, s, "buy", Date(2024, 12, 31), 1, 1, 0) : s \in Securities}
ReportHoldings ==
    {None} \cup {[id |-> 1, qty |-> RoundTo(NewFromInt(2), QtyScale),
                  avg |-> RoundTo(NewFromInt(a), PriceScale),
                  cost |-> RoundTo(NewFromInt(2 * a), CostScale)] :
                     a \in Prices}

\* the ledgers of at most n recorded rows, with ids 1..n
RECURSIVE Ledgers(_)
Ledgers(n) ==
    IF n = 0 THEN {{}}
    ELSE {l \cup x : l \in Ledgers(n - 1),
                     x \in {{}} \cup {{r} : r \in RecordedRows(n)}}

InitTax ==
    /\ txRows \in Ledgers(MaxTx)
    /\ holdings \in [Securities -> ReportHoldings]
    /\ nextTxId = MaxTx + 1
    /\ nextHoldingId = 2
    /\ pc = [p \in Procs |-> "idle"]
    /\ req = [p \in Procs |-> NoReq]
    /\ held = [p \in Procs |-> NotRead]
    /\ applied = [p \in Procs |-> FALSE]
    /\ result = [p \in Procs |-> "none"]
    /\ faults = 0
    /\ reply = NoReply

\* tax reports of recorded ledgers
NextTax == GetTaxReport
SpecTax == InitTax /\ [][NextTax]_vars

\* The portfolios that are read: each listed security held or not
ReadHoldings(s) ==
    {None} \cup {[id |-> CHOOSE i \in 1..3 : s = <<"S1", "S2", "S3">>[i],
                  qty |-> RoundTo(NewFromInt(q), QtyScale),
                  avg |-> RoundTo(NewFromInt(2), PriceScale),
                  cost |-> RoundTo(NewFromInt(2 * q), CostScale)] :
                     q \in Quantities}

InitRead ==
    /\ txRows = {}
    /\ holdings \in {h \in [ListedSecurities ->
                                UNION {ReadHoldings(s) :
                                          s \in ListedSecurities}] :
                         /\ \A s \in ListedSecurities :
                               h[s] \in ReadHoldings(s)
                         /\ \E s \in ListedSecurities : h[s] # None}
    /\ nextTxId = MaxTx + 1
    /\ nextHoldingId = 4
    /\ pc = [p \in Procs |-> "idle"]
    /\ req = [p \in Procs |-> NoReq]
    /\ held = [p \in Procs |-> NotRead]
    /\ applied = [p \in Procs |-> FALSE]
    /\ result = [p \in Procs |-> "none"]
    /\ faults = 0
    /\ reply = NoReply

\* holdings and analytics of recorded portfolios
NextRead == GetHoldings \/ GetPortfolioAnalytics
SpecRead == InitRead /\ [][NextRead]_vars

\* The dividends recorded for the portfolios whose analytics are asked for:
\* early and late in the year before the requests, and in their year
DividendRows ==
    {Row(1, "S2", "dividend", Date(2024, 2, 1), 1, 1, 0),
     Row(2, "S2", "dividend", Date(2024, 9, 1), 1, 2, 0),
     Row(3, "S2", "dividend", Date(2025, 3, 1), 1, 3, 0)}

InitYield ==
    /\ txRows \in SUBSET DividendRows
    /\ holdings \in {h \in [ListedSecurities ->
                                UNION {ReadHoldings(s) :
                                          s \in ListedSecurities}] :
                         /\ \A s \in ListedSecurities :
                               h[s] \in ReadHoldings(s)
                         /\ h["S2"] # None
                         /\ h["S3"] = None}
    /\ nextTxId = MaxTx + 1
    /\ nextHoldingId = 4
    /\ pc = [p \in Procs |-> "idle"]
    /\ req = [p \in Procs |-> NoReq]
    /\ held = [p \in Procs |-> NotRead]
    /\ applied = [p \in Procs |-> FALSE]
    /\ result = [p \in Procs |-> "none"]
    /\ faults = 0
    /\ reply = NoReply

\* A position bought in one transaction, and the sells that are tried
\* against each other on it
BoughtRows == {Row(1, "S1", "buy", d, 3, 1, 0) : d \in TradeDates}
SellInputs == [type : {"sell"}, qty : Quantities, price : {1}, comm : {0}]

InitSells ==
    /\ txRows = BoughtRows
    /\ holdings = [s \in Securities |->
                      [id |-> 1, qty |-> RoundTo(NewFromInt(3), QtyScale),
                       avg |-> RoundTo(NewFromInt(1), PriceScale),
                       cost |-> RoundTo(NewFromInt(3), CostScale)]]
    /\ nextTxId = 2
    /\ nextHoldingId = 2
    /\ pc = [p \in Procs |-> "idle"]
    /\ req = [p \in Procs |-> NoReq]
    /\ held = [p \in Procs |-> NotRead]
    /\ applied = [p \in Procs |-> FALSE]
    /\ result = [p \in Procs |-> "none"]
    /\ faults = 0
    /\ reply = NoReply

\* two sell requests served concurrently
NextSells ==
    \E p \in Procs :
        \/ AddStart(p, SellInputs)
        \/ AddInsert(p) \/ AddSellGet(p) \/ AddSellWrite(p)
        \/ Commit(p) \/ Abort(p) \/ Respond(p)
SpecSells == InitSells /\ [][NextSells]_vars

\* responses of the transaction endpoints
NextHttp == PostTransaction \/ DeleteTransactionRequest
SpecHttp == Init /\ [][NextHttp]_vars

\* analytics of portfolios that received dividends
NextYield == GetPortfolioAnalytics
SpecYield == InitYield /\ [][NextYield]_vars

TypeOK ==
    /\ pc \in [Procs -> InTx \cup {"idle", "done"}]
    /\ nextTxId \in 1..(MaxTx + 1)
    /\ faults \in 0..MaxFaults
    /\ \A s \in Securities :
          holdings[s] = None \/ holdings[s].id < nextHoldingId

\* ================================================================ claims
Finished(p, op) == pc[p] = "done" /\ req[p].op = op
MovesHolding(tx) == tx.type \in {"buy", "sell", "split"}

\* The Holding that applying one recorded transaction to h gives: the
\* transaction's AddTransaction case run to its end, a failing one skipped.
ApplyRow(h, tx) ==
    CASE tx.type = "buy" ->
           IF HoldingCreateFails(h, tx.sec, Qty(tx.qty)) THEN h
           ELSE UpdateHoldingOnBuy(h, tx.sec, 0, Qty(tx.qty),
                                   Price(tx.price), Cost(tx.comm))
      [] tx.type = "sell" ->
           IF InsufficientShares(h[tx.sec], Qty(tx.qty)) THEN h
           ELSE UpdateHoldingOnSell(h, tx.sec, h[tx.sec], Qty(tx.qty))
      [] tx.type = "split" ->
           IF h[tx.sec] = None THEN h
           ELSE UpdateHoldingOnSplit(h, h[tx.sec], Qty(tx.qty))
      [] OTHER -> h

\* The recorded transactions with id >= i applied in the order of their ids.
RECURSIVE ReplayFrom(_, _, _)
ReplayFrom(h, rows, i) ==
    IF i > MaxTx THEN h
    ELSE IF \E r \in rows : r.id = i
         THEN ReplayFrom(ApplyRow(h, CHOOSE r \in rows : r.id = i), rows,
                         i + 1)
         ELSE ReplayFrom(h, rows, i + 1)
Replay(rows) == ReplayFrom([s \in Securities |-> None], rows, 1)

\* C1: when DeleteTransaction(T) has succeeded for a buy, sell or split T,
\* the Holding of T's pair (existence, quantity, total_cost, average_price)
\* is the Holding that replaying the remaining recorded transactions gives;
\* after AddTransaction(T) on an empty ledger and DeleteTransaction(T) there
\* is no Holding row.
C1_DeleteIsInverse ==
    \A p \in Procs :
        (Finished(p, "delete") /\ result[p] = "ok" /\ MovesHolding(req[p].tx))
        => View(holdings[req[p].tx.sec]) = View(Replay(txRows)[req[p].tx.sec])

\* C2: when AddTransaction of a buy, sell or split has ended, in success or
\* in failure, either its transaction row is committed and its Holding
\* mutation was made, or the row is not committed and the Holding is as it
\* was when the request arrived.
C2_AddTransactionAtomic ==
    \A p \in Procs :
        (Finished(p, "add") /\ MovesHolding(req[p].tx))
        => IF req[p].tx \in txRows THEN applied[p]
           ELSE View(holdings[req[p].tx.sec]) = req[p].before

\* C3: when DeleteTransaction of a buy, sell or split has ended, in success
\* or in failure, either the transaction row is gone and the Holding was
\* reverted, or the row is still there and the Holding is as it was when the
\* request arrived.
C3_DeleteTransactionAtomic ==
    \A p \in Procs :
        (Finished(p, "delete") /\ MovesHolding(req[p].tx))
        => IF req[p].tx \notin txRows THEN applied[p]
           ELSE View(holdings[req[p].tx.sec]) = req[p].before

\* C4: a sell AddTransaction that finds no Holding, or a held quantity below
\* the quantity sold, has ended with ErrInsufficientShares, the Holding row is
\* as it was read, and no transaction row is recorded for the sell.
C4_SellInsufficientShares ==
    \A p \in Procs :
        (/\ req[p].op = "add"
         /\ req[p].tx.type = "sell"
         /\ held[p] # NotRead
         /\ (held[p] = None \/ held[p].qty < req[p].tx.qty))
        => /\ pc[p] = "done"
           /\ result[p] = "ErrInsufficientShares"
           /\ ~ applied[p]
           /\ holdings[req[p].tx.sec] = held[p]
           /\ req[p].tx \notin txRows

C4_Witness ==
    \E p \in Procs :
        /\ Finished(p, "add")
        /\ req[p].tx.type = "sell"
        /\ held[p] \notin {NotRead, None}
        /\ held[p].qty < req[p].tx.qty
        /\ result[p] = "ErrInsufficientShares"

\* C5: when a sell AddTransaction of the whole held quantity has succeeded,
\* the pair has no Holding row.
C5_SellAllDeletesHolding ==
    \A p \in Procs :
        (/\ Finished(p, "add")
         /\ req[p].tx.type = "sell"
         /\ result[p] = "ok"
         /\ held[p].qty = req[p].tx.qty)
        => holdings[req[p].tx.sec] = None

\* a and b differ by at most tol
Near(a, b, tol) == LessThanOrEqual(DAbs(DSub(a, b)), tol)
\* average_price * quantity = total_cost, to the last digit average_price keeps
AvgConsistent(row) ==
    Near(DMul(Price(row.avg), Qty(row.qty)), Cost(row.cost),
         DMul(Dec(1, PriceScale), Qty(Abs(row.qty))))

\* C6: every Holding with quantity > 0 has average_price = total_cost /
\* quantity (a first buy of q at price p with commission c gives quantity q,
\* total_cost q*p+c and average_price (q*p+c)/q).
C6_AveragePriceConsistent ==
    \A s \in Securities :
        (holdings[s] # None /\ holdings[s].qty > 0)
        => AvgConsistent(holdings[s])

RECURSIVE SumOver(_, _)
SumOver(rows, field) ==
    IF rows = {} THEN 0
    ELSE LET r == CHOOSE x \in rows : TRUE
         IN  (IF field = "qty" THEN r.qty ELSE r.amount)
             + SumOver(rows \ {r}, field)

\* every AddTransaction so far was a buy of security s that is committed and
\* was not deleted, and no request is in progress
OnlyBuys(s) ==
    /\ txRows # {}
    /\ Cardinality(txRows) = nextTxId - 1
    /\ \A r \in txRows : r.type = "buy" /\ r.sec = s
    /\ \A p \in Procs : pc[p] = "idle"
    /\ faults = 0

\* C7: after buys B1..Bn and nothing else on a fresh pair, the Holding has
\* quantity = sum of the quantities, total_cost = sum of quantity*price +
\* commission, and average_price = total_cost / quantity.
C7_BuysAccumulate ==
    \A s \in Securities :
        OnlyBuys(s)
        => /\ holdings[s] # None
           /\ holdings[s].qty = SumOver(txRows, "qty")
           /\ holdings[s].cost = SumOver(txRows, "amount")
           /\ AvgConsistent(holdings[s])

\* C8: no Holding row has a negative quantity.
C8_QuantityNeverNegative ==
    \A s \in Securities : holdings[s] # None => holdings[s].qty >= 0

\* C9: a sell of q < heldQuantity has set the Holding to quantity =
\* heldQuantity - q and total_cost = heldTotalCost - (q / heldQuantity) *
\* heldTotalCost, to the last digit total_cost keeps, and has left
\* average_price as it was.
C9_PartialSell ==
    \A p \in Procs :
        (/\ pc[p] = "commit"
         /\ req[p].op = "add"
         /\ req[p].tx.type = "sell"
         /\ req[p].tx.qty < held[p].qty)
        => LET h == holdings[req[p].tx.sec]
               q == req[p].tx.qty
           IN  /\ h # None
               /\ h.qty = held[p].qty - q
               /\ h.avg = held[p].avg
               /\ Near(DMul(Cost(h.cost), Qty(held[p].qty)),
                       DMul(Cost(held[p].cost), Qty(held[p].qty - q)),
                       DMul(Dec(1, CostScale), Qty(held[p].qty)))

C9_Witness ==
    \E p \in Procs :
        /\ pc[p] = "commit"
        /\ req[p].op = "add"
        /\ req[p].tx.type = "sell"
        /\ req[p].tx.qty < held[p].qty
        /\ holdings[req[p].tx.sec] # None
        /\ holdings[req[p].tx.sec].qty = held[p].qty - req[p].tx.qty
        /\ holdings[req[p].tx.sec].cost < held[p].cost

\* C10: a deleted buy whose reversal leaves quantity <= 0 or total_cost <= 0
\* has removed the Holding row; any other deleted buy has set the Holding to
\* quantity - tx.quantity and total_cost - tx.amount with average_price =
\* newTotalCost / newQuantity.
C10_RevertBuy ==
    \A p \in Procs :
        (/\ pc[p] = "commit"
         /\ req[p].op = "delete"
         /\ req[p].tx.type = "buy"
         /\ held[p] \notin {NotRead, None})
        => LET h == holdings[req[p].tx.sec]
               newQuantity == held[p].qty - req[p].tx.qty
               newTotalCost == held[p].cost - req[p].tx.amount
           IN  IF newQuantity <= 0 \/ newTotalCost <= 0
               THEN h = None
               ELSE /\ h # None
                    /\ h.qty = newQuantity
                    /\ h.cost = newTotalCost
                    /\ AvgConsistent(h)

\* the two handlers have both completed a buy of the same security
BothBought ==
    /\ \A p \in Procs :
          /\ Finished(p, "add")
          /\ req[p].tx.type = "buy"
          /\ result[p] = "ok"
    /\ req[1].tx.sec = req[2].tx.sec

\* every AddTransaction so far was a buy of security s that is committed and
\* was not deleted, and every handler has ended its request
OnlyBuysEnded(s) ==
    /\ txRows # {}
    /\ Cardinality(txRows) = nextTxId - 1
    /\ \A r \in txRows : r.type = "buy" /\ r.sec = s
    /\ \A p \in Procs : pc[p] \in {"idle", "done"}
    /\ faults = 0

\* C11: when buys of one pair, in any interleaving of the handlers, are all
\* that happened, the Holding's quantity and total_cost are the sums of the
\* quantities and amounts of all the buys: none is lost, with or without a
\* Holding before the buys that ran at the same time.
C11_ConcurrentBuysAccumulate ==
    \A s \in Securities :
        OnlyBuysEnded(s)
        => /\ holdings[s] # None
           /\ holdings[s].qty = SumOver(txRows, "qty")
           /\ holdings[s].cost = SumOver(txRows, "amount")

\* two buys that both arrived before either had written, with no Holding
C11_Witness ==
    /\ BothBought
    /\ OnlyBuysEnded(req[1].tx.sec)
    /\ req[1].before = None
    /\ req[2].before = None
    /\ holdings[req[1].tx.sec].qty = req[1].tx.qty + req[2].tx.qty

\* two buys that both arrived before either had written, with a Holding
C11_WitnessExisting ==
    /\ BothBought
    /\ OnlyBuysEnded(req[1].tx.sec)
    /\ req[1].before # None
    /\ req[2].before = req[1].before

\* C12: a split AddTransaction with ratio r on an existing Holding has set
\* quantity = heldQuantity * r and average_price = heldAveragePrice / r, to
\* the last digit average_price keeps, and has left total_cost as it was.
C12_SplitApplied ==
    \A p \in Procs :
        (/\ pc[p] = "commit"
         /\ req[p].op = "add"
         /\ req[p].tx.type = "split"
         /\ held[p] \notin {NotRead, None})
        => LET h == holdings[req[p].tx.sec]
               r == Qty(req[p].tx.qty)
           IN  /\ h # None
               /\ DCmp(Qty(h.qty), DMul(Qty(held[p].qty), r)) = 0
               /\ Near(DMul(Price(h.avg), r), Price(held[p].avg),
                       DMul(Dec(1, PriceScale), r))
               /\ h.cost = held[p].cost

C12_Witness ==
    \E p \in Procs :
        /\ pc[p] = "commit"
        /\ req[p].op = "add"
        /\ req[p].tx.type = "split"
        /\ held[p] \notin {NotRead, None}
        /\ holdings[req[p].tx.sec].qty > held[p].qty
        /\ holdings[req[p].tx.sec].avg < held[p].avg
        /\ holdings[req[p].tx.sec].cost = held[p].cost

\* handler p deletes the split that was the last change of the ledger, and
\* every transaction added before it is recorded: the Holding before the
\* split is the replay of the other rows
RevertsLastSplit(p) ==
    /\ pc[p] = "commit"
    /\ req[p].op = "delete"
    /\ req[p].tx.type = "split"
    /\ req[p].tx.id = nextTxId - 1
    /\ Cardinality(txRows) = nextTxId - 1
    /\ faults = 0
    /\ held[p] \notin {NotRead, None}

\* C13: when a split has been applied to a Holding and DeleteTransaction of
\* the split has then reverted it, quantity and average_price are what they
\* were before the split, and total_cost is what it was.
C13_SplitRevertRestores ==
    \A p \in Procs :
        RevertsLastSplit(p)
        => View(holdings[req[p].tx.sec])
           = View(Replay(txRows \ {req[p].tx})[req[p].tx.sec])

\* C14: a split AddTransaction that finds no Holding for its pair has ended
\* without an error, no Holding was created, and the split is recorded.
C14_SplitWithoutHolding ==
    \A p \in Procs :
        (/\ Finished(p, "add")
         /\ req[p].tx.type = "split"
         /\ held[p] = None
         /\ faults = 0)
        => /\ result[p] = "ok"
           /\ req[p].tx \in txRows
           /\ holdings[req[p].tx.sec] = None

\* C15: when AddTransaction or DeleteTransaction of a dividend or coupon
\* has ended, every Holding is as it was when the request arrived; when it
\* succeeded the row is recorded (add) or removed (delete).
C15_IncomeLeavesHoldings ==
    \A p \in Procs :
        (/\ pc[p] = "done"
         /\ req[p].op \in {"add", "delete"}
         /\ req[p].tx.type \in {"dividend", "coupon"})
        => /\ View(holdings[req[p].tx.sec]) = req[p].before
           /\ result[p] = "ok"
              => (req[p].tx \in txRows <=> req[p].op = "add")

\* a dividend or coupon was deleted while a Holding exists
C15_Witness ==
    \E p \in Procs :
        /\ Finished(p, "delete")
        /\ req[p].tx.type \in {"dividend", "coupon"}
        /\ result[p] = "ok"
        /\ req[p].before # None
        /\ req[p].tx \notin txRows

\* a dividend or coupon was added while a Holding exists
C15_WitnessAdd ==
    \E p \in Procs :
        /\ Finished(p, "add")
        /\ req[p].tx.type \in {"dividend", "coupon"}
        /\ result[p] = "ok"
        /\ req[p].before # None
        /\ req[p].tx \in txRows

\* C16: when a buy AddTransaction with quantity <= 0 has ended, it has
\* failed, no row is recorded for it and the Holding is as it was when the
\* request arrived.
C16_NonPositiveBuyRejected ==
    \A p \in Procs :
        (/\ Finished(p, "add")
         /\ req[p].tx.type = "buy"
         /\ req[p].tx.qty <= 0)
        => /\ result[p] # "ok"
           /\ req[p].tx \notin txRows
           /\ View(holdings[req[p].tx.sec]) = req[p].before

\* the recorded sells dated in the year
SellsOf(year) == {r \in txRows : r.type = "sell" /\ r.date.y = year}

\* quantity*price - commission - quantity*basis of a sell, in units of
\* 10^-(QtyScale+PriceScale); the basis is the average price of the sold
\* security's Holding in h, or the sale's price when h has none
ProfitLoss(r, h) ==
    LET basis == IF h[r.sec] # None THEN h[r.sec].avg ELSE r.price
    IN  r.qty * r.price
        - r.comm * Pow10(QtyScale + PriceScale - CostScale)
        - r.qty * basis

\* the sum over the sells of sign * ProfitLoss where that is positive
RECURSIVE SumProfitLoss(_, _, _)
SumProfitLoss(sells, h, sign) ==
    IF sells = {} THEN 0
    ELSE LET r == CHOOSE x \in sells : TRUE
             v == sign * ProfitLoss(r, h)
         IN  (IF v > 0 THEN v ELSE 0) + SumProfitLoss(sells \ {r}, h, sign)

\* RealizedGains and RealizedLosses of the returned report are the sums of
\* the gains and of the losses of the year's sells, priced against h
GainsAndLossesFrom(h) ==
    /\ DCmp(reply.report.RealizedGains,
            Dec(SumProfitLoss(SellsOf(reply.year), h, 1),
                QtyScale + PriceScale)) = 0
    /\ DCmp(reply.report.RealizedLosses,
            Dec(SumProfitLoss(SellsOf(reply.year), h, -1),
                QtyScale + PriceScale)) = 0

\* C17 (as stated): a tax report counts the sells dated in its year, each
\* with proceeds = quantity*price - commission and costBasis = quantity *
\* (the average price of the security's Holding if one exists, else the
\* sale's price); gains (>= 0) add up in RealizedGains, losses in
\* RealizedLosses.
C17_TaxReportSells ==
    reply.op = "tax" => GainsAndLossesFrom(holdings)

\* C17 (amended): the same, where the Holding counts only if the report
\* could read the portfolio's holdings; after a failed read every sell is
\* priced against its own price.
C17_TaxReportSellsRead ==
    reply.op = "tax"
    => GainsAndLossesFrom(IF reply.holdingsRead THEN holdings
                          ELSE [s \in DOMAIN holdings |-> None])

\* a report with a gain priced against the Holding's average, a sell on the
\* last day of the year and a sell of the year before
C17_Witness ==
    /\ reply.op = "tax"
    /\ reply.holdingsRead
    /\ \E r \in SellsOf(reply.year) :
          /\ holdings[r.sec] # None
          /\ holdings[r.sec].avg # r.price
          /\ ProfitLoss(r, holdings) > 0
          /\ r.date = Date(reply.year, 12, 31)
    /\ \E r \in txRows : r.type = "sell" /\ r.date.y < reply.year
    /\ LessThan(DZero, reply.report.RealizedGains)

\* C18: in every tax report NetGain = RealizedGains - RealizedLosses, also
\* when the losses exceed the gains.
C18_NetGain ==
    reply.op = "tax"
    => DCmp(reply.report.NetGain,
            DSub(reply.report.RealizedGains, reply.report.RealizedLosses)) = 0

\* the sum of the amounts of the rows of one type dated in the year, in
\* units of 10^-CostScale
RECURSIVE SumAmounts(_)
SumAmounts(rows) ==
    IF rows = {} THEN 0
    ELSE LET r == CHOOSE x \in rows : TRUE
         IN  r.amount + SumAmounts(rows \ {r})
IncomeOf(type, year) ==
    SumAmounts({r \in txRows : r.type = type /\ r.date.y = year})

\* C19: in every tax report TotalDividends and TotalCoupons are the sums of
\* the amounts of the year's dividends and coupons, TaxableAmount =
\* TotalDividends + TotalCoupons + max(RealizedGains - RealizedLosses, 0),
\* and EstimatedTax = TaxableAmount * 13 / 100.
C19_TaxableAmount ==
    reply.op = "tax"
    => LET r == reply.report
           net == DSub(r.RealizedGains, r.RealizedLosses)
           income == Cost(IncomeOf("dividend", reply.year)
                          + IncomeOf("coupon", reply.year))
       IN  /\ DCmp(r.TotalDividends,
                   Cost(IncomeOf("dividend", reply.year))) = 0
           /\ DCmp(r.TotalCoupons, Cost(IncomeOf("coupon", reply.year))) = 0
           /\ DCmp(r.TaxableAmount,
                   IF LessThan(DZero, net) THEN DAdd(income, net)
                   ELSE income) = 0
           /\ DCmp(DMul(r.EstimatedTax, NewFromInt(100)),
                   DMul(r.TaxableAmount, NewFromInt(13))) = 0

\* a report of a year with a dividend, a coupon and a net loss
C19_Witness ==
    /\ reply.op = "tax"
    /\ LessThan(DZero, reply.report.TotalDividends)
    /\ LessThan(DZero, reply.report.TotalCoupons)
    /\ LessThan(reply.report.RealizedGains, reply.report.RealizedLosses)
    /\ LessThan(DZero, reply.report.EstimatedTax)

\* a report of a year with a dividend and a net gain
C19_WitnessGain ==
    /\ reply.op = "tax"
    /\ LessThan(DZero, reply.report.TotalDividends)
    /\ LessThan(reply.report.RealizedLosses, reply.report.RealizedGains)
    /\ LessThan(DZero, reply.report.RealizedLosses)

\* the exchange group of ticker t on exchange ex was answered with a quote
Quoted(market, ex, t) ==
    /\ ex \in DOMAIN market
    /\ market[ex] # QuoteError
    /\ t \in DOMAIN market[ex]

\* C20: whatever groups GetQuotes fails for, GetHoldings and
\* GetPortfolioAnalytics return without an error once the holdings were
\* read, and every holding whose own group was answered with a quote for
\* its ticker carries a price quoted for that ticker by a group that did not
\* fail.
C20_MarketFailuresTolerated ==
    (reply.op \in {"holdings", "analytics"} /\ reply.holdingsRead)
    => /\ ~ reply.err
       /\ \A hd \in reply.holdings :
             LET info == SecurityInfo[hd.sec]
             IN  Quoted(reply.market, info.exchange, info.ticker)
                 => \E ex \in DOMAIN reply.market :
                       /\ Quoted(reply.market, ex, info.ticker)
                       /\ DCmp(hd.CurrentPrice,
                               NewFromInt(reply.market[ex][info.ticker])) = 0

\* holdings returned after one group failed and another was answered: a
\* holding of the answered group has the quoted price, not the stored one
C20_Witness ==
    /\ reply.op = "holdings"
    /\ reply.holdingsRead
    /\ ~ reply.err
    /\ \E ex \in DOMAIN reply.market : reply.market[ex] = QuoteError
    /\ \E hd \in reply.holdings :
          LET info == SecurityInfo[hd.sec]
          IN  /\ Quoted(reply.market, info.exchange, info.ticker)
              /\ QuotePrices[info.exchange] # info.lastPrice
              /\ DCmp(hd.CurrentPrice,
                      NewFromInt(QuotePrices[info.exchange])) = 0

\* analytics returned after every group failed
C20_WitnessAllFailed ==
    /\ reply.op = "analytics"
    /\ reply.holdingsRead
    /\ ~ reply.err
    /\ Cardinality(DOMAIN reply.market) = 2
    /\ \A ex \in DOMAIN reply.market : reply.market[ex] = QuoteError

\* the computed fields of a returned holding are all zero
DerivedZero(hd) ==
    /\ DCmp(hd.CurrentPrice, DZero) = 0
    /\ DCmp(hd.CurrentValue, DZero) = 0
    /\ DCmp(hd.Profit, DZero) = 0
    /\ DCmp(hd.ProfitPercent, DZero) = 0
    /\ DCmp(hd.Weight, DZero) = 0

\* no group that was answered quoted ticker t
Unquoted(market, t) == \A ex \in DOMAIN market : ~ Quoted(market, ex, t)

RECURSIVE SumWeights(_)
SumWeights(list) ==
    IF list = {} THEN DZero
    ELSE LET hd == CHOOSE x \in list : TRUE
         IN  DAdd(hd.Weight, SumWeights(list \ {hd}))

\* what rounding can move a sum of weights, or one weight, by
WeightTolerance == Dec(2, 1)

\* C22: the weights of a non-empty list of holdings that went through
\* enrichHoldings and whose total current value is positive sum to 100
\* within rounding, and each weight is current_value / total * 100.
C22_WeightsSumTo100 ==
    (/\ reply.op = "holdings"
     /\ reply.holdingsRead
     /\ reply.holdings # {}
     /\ LessThan(DZero, SumField(reply.holdings, "CurrentValue")))
    => LET total == SumField(reply.holdings, "CurrentValue")
       IN  /\ Near(SumWeights(reply.holdings), NewFromInt(100),
                   WeightTolerance)
           /\ \A hd \in reply.holdings :
                 Near(hd.Weight,
                      DMul(Div(hd.CurrentValue, total), NewFromInt(100)),
                      WeightTolerance)

\* the stored values of a field (type, sector, currency) of the securities
\* held in a list, an empty sector aside
BucketKeys(list, field) == {SecurityInfo[hd.sec][field] : hd \in list} \ {""}

\* the percentage of the total current value held in bucket k of a field
BucketShare(list, field, k) ==
    DMul(Div(SumField({hd \in list : SecurityInfo[hd.sec][field] = k},
                      "CurrentValue"),
             SumField(list, "CurrentValue")),
         NewFromInt(100))

\* the allocation map of the reply for a field
AllocationOf(field) ==
    CASE field = "type" -> reply.AllocationByType
      [] field = "sector" -> reply.AllocationBySector
      [] field = "currency" -> reply.AllocationByCurrency

\* C23: GetPortfolioAnalytics returns TotalReturn = sum(current_value) -
\* sum(total_cost) over the holdings and, when the total current value is
\* positive, for every security type, sector and currency held a bucket
\* equal to the bucket's summed current_value / total current value * 100;
\* when the total is zero it still returns (nothing is divided).
C23_AnalyticsTotals ==
    (reply.op = "analytics" /\ reply.holdingsRead)
    => /\ ~ reply.err
       /\ DCmp(reply.TotalReturn,
               DSub(SumField(reply.holdings, "CurrentValue"),
                    SumField(reply.holdings, "TotalCost"))) = 0
       /\ LessThan(DZero, SumField(reply.holdings, "CurrentValue"))
          => \A field \in {"type", "sector", "currency"} :
                \A k \in BucketKeys(reply.holdings, field) :
                   /\ k \in DOMAIN AllocationOf(field)
                   /\ DCmp(AllocationOf(field)[k],
                           BucketShare(reply.holdings, field, k)) = 0

\* date d lies in the 12 months that end at the date of the request
InTrailingYear(d, now) ==
    /\ DateLE(Date(now.y - 1, now.m, now.d), d)
    /\ DateLE(d, now)

\* dividends / total current value * 100 for the reply's holdings
YieldOf(dividends) ==
    DMul(Div(Cost(TotalAmount(dividends)),
             SumField(reply.holdings, "CurrentValue")),
         NewFromInt(100))

ValidationError ==
    \/ /\ reply.op = "post"
       /\ \/ ~ reply.bound
          \/ reply.security = "unknown"
          \/ reply.security = "found" /\ reply.portfolio = "unknown"
          \/ /\ reply.security = "found" /\ reply.portfolio = "found"
             /\ reply.outcome = "insufficient"
    \/ /\ reply.op = "delete"
       /\ (~ reply.parsed \/ reply.transaction = "unknown")

\* the request met a failure of the storage
StorageFailure ==
    \/ /\ reply.op = "post"
       /\ "storage" \in {reply.security, reply.portfolio, reply.outcome}
    \/ /\ reply.op = "delete"
       /\ "storage" \in {reply.transaction, reply.outcome}

\* C25: the create and delete transaction endpoints answer every
\* validation error (insufficient shares, unknown security, unknown
\* portfolio, unknown transaction id) with a 4xx status, and answer 5xx only
\* on a storage failure.
C25_ValidationErrors4xx ==
    (reply.op \in {"post", "delete"})
    => /\ ValidationError => reply.status \in 400..499
       /\ reply.status \in 500..599 => StorageFailure

\* handler p deletes the sell that was the last change of the ledger, and
\* every transaction added before it is recorded: the Holding before the
\* sell is the replay of the other rows
RevertsLastSell(p) ==
    /\ pc[p] = "commit"
    /\ req[p].op = "delete"
    /\ req[p].tx.type = "sell"
    /\ req[p].tx.id = nextTxId - 1
    /\ Cardinality(txRows) = nextTxId - 1
    /\ faults = 0

\* C26: when a sell, partial or of the whole position, has been applied to
\* a Holding and DeleteTransaction of the sell has then reverted it,
\* quantity, total_cost and average_price are what they were before the
\* sell.
C26_SellRevertRestores ==
    \A p \in Procs :
        RevertsLastSell(p)
        => View(holdings[req[p].tx.sec])
           = View(Replay(txRows \ {req[p].tx})[req[p].tx.sec])

\* every AddTransaction so far succeeded and is recorded, none was deleted,
\* and none was a split
OnlySuccessfulTrades ==
    /\ faults = 0
    /\ Cardinality(txRows) = nextTxId - 1
    /\ \A r \in txRows : r.type # "split"

\* C27: after any sequence of successful AddTransaction calls on one pair,
\* without splits and deletions, the quantities of the recorded sells total
\* no more than the quantities of the recorded buys (so a sell that follows
\* the sale of the whole position cannot have succeeded).
C27_SellsWithinBuys ==
    OnlySuccessfulTrades
    => SumOver({r \in txRows : r.type = "sell"}, "qty")
       <= SumOver({r \in txRows : r.type = "buy"}, "qty")

\* both handlers have completed DeleteTransaction of the same buy or sell
\* without an error, and both arrived before either had touched the Holding
BothDeleted ==
    /\ \A p \in Procs : Finished(p, "delete") /\ result[p] = "ok"
    /\ req[1].tx = req[2].tx
    /\ req[1].tx.type \in {"buy", "sell"}
    /\ req[1].before = req[2].before
    /\ req[1].before # None
    /\ faults = 0

\* C28: when two concurrent DeleteTransaction calls on the same transaction
\* id have ended, the reversal was applied to the Holding once: the Holding
\* is what a single deletion makes of the Holding they found, for a sell
\* quantity + tx.quantity and total_cost + tx.amount, for a buy that leaves
\* a positive rest quantity - tx.quantity and total_cost - tx.amount.
C28_ConcurrentDeletesOnce ==
    BothDeleted
    => LET tx == req[1].tx
           before == req[1].before
           h == holdings[tx.sec]
       IN  /\ tx.type = "sell"
              => /\ h # None
                 /\ h.qty = before.qty + tx.qty
                 /\ h.cost = before.cost + tx.amount
           /\ (/\ tx.type = "buy"
               /\ before.qty - tx.qty > 0
               /\ before.cost - tx.amount > 0)
              => /\ h # None
                 /\ h.qty = before.qty - tx.qty
                 /\ h.cost = before.cost - tx.amount

\* both handlers have completed a sell of the same security without an
\* error, and both arrived before either had touched the Holding
BothSold ==
    /\ \A p \in Procs :
          /\ Finished(p, "add")
          /\ result[p] = "ok"
          /\ req[p].tx.type = "sell"
    /\ req[1].tx.sec = req[2].tx.sec
    /\ req[1].before = req[2].before
    /\ req[1].before # None
    /\ faults = 0

\* C29: when two concurrent sell AddTransactions on one pair have both
\* succeeded, the quantities they sold total no more than the quantity held
\* before them, and when something is left of it the Holding's quantity is
\* that quantity minus both.
C29_ConcurrentSells ==
    BothSold
    => LET h == holdings[req[1].tx.sec]
           rest == req[1].before.qty - req[1].tx.qty - req[2].tx.qty
       IN  /\ rest >= 0
           /\ rest > 0 => (h # None /\ h.qty = rest)

\* C30: for fixed holdings and fixed provider responses, every holding
\* whose own exchange group quoted its ticker has as current_price the last
\* price quoted for its own (ticker, exchange), also when holdings on
\* different exchanges share a ticker, and the enriched holdings are the
\* same in whatever order the exchange groups are processed.
C30_EnrichmentExchangeCorrect ==
    (reply.op = "holdings" /\ reply.holdingsRead)
    => /\ \A hd \in reply.holdings :
             LET info == SecurityInfo[hd.sec]
             IN  Quoted(reply.market, info.exchange, info.ticker)
                 => DCmp(hd.CurrentPrice,
                         NewFromInt(reply.market[info.exchange][info.ticker]))
                    = 0
       /\ \A order \in GroupOrders(GetByPortfolioID(holdings)) :
             EnrichHoldings(GetByPortfolioID(holdings), reply.market,
                            order).list = reply.holdings
====
